---- MODULE Spec2Model ----
(***************************************************************************)
(* Model of validate-results.js and analyze-results.js: two single-pass    *)
(* command line tools that read a k6 NDJSON results file, aggregate its    *)
(* Point records per metric, tally HTTP status codes and compare the p95   *)
(* of http_req_duration and the error rate against thresholds.             *)
(*                                                                         *)
(* Numbers.  JavaScript numbers are doubles.  Durations in the model are   *)
(* whole milliseconds.  The thresholds on the error rate are kept in       *)
(* hundredths (0.10 is 10, 0.20 is 20) and the error rate is kept as the   *)
(* pair errorReqs / totalReqs, compared by cross-multiplication.  For the  *)
(* request counts of the model this agrees with the doubles of the code:   *)
(* e/t is correctly rounded, so it is the same double as the literal 0.10  *)
(* (0.20) exactly when 10e = t (5e = t), and otherwise differs from it by  *)
(* at least 1/(10t), far more than one rounding error.  Likewise           *)
(* Math.floor(n * 0.95) = floor(95n / 100) and Math.floor(n * 0.99) =      *)
(* floor(99n / 100): the relative error of the literals 0.95 and 0.99 is   *)
(* below half a unit in the last place, so a product that is an integer in *)
(* exact arithmetic rounds to that integer.                                *)
(***************************************************************************)
EXTENDS Integers, Sequences, FiniteSets, TLC

(***************************************************************************)
(* Bounds of the explored inputs.                                          *)
(***************************************************************************)
MaxLines == 2
MaxArgs == 2
\* the longest file that is edited and run again
MaxRerunLines == 21

(***************************************************************************)
(* Program constants.                                                      *)
(***************************************************************************)
SUCCESS == 0
FAILURE == 1

\* the values sorted[i] and args[0] take when the index is out of range
Undefined == -1
NoArg == "<undefined>"
\* THRESHOLDS before line 27 has run
Unset == [errorRate |-> -1, responseTime |-> -1]

(***************************************************************************)
(* Strings whose characters the code inspects (status codes) are sequences *)
(* of characters; the empty sequence stands for a status that is absent    *)
(* (undefined) or the empty string, both falsy in `status || 'unknown'`.   *)
(***************************************************************************)
NoStatus == << >>
S200 == <<"2", "0", "0">>
S301 == <<"3", "0", "1">>
S404 == <<"4", "0", "4">>
S500 == <<"5", "0", "0">>
S0 == <<"0">>
UnknownKey == <<"u", "n", "k", "n", "o", "w", "n">>

(***************************************************************************)
(* Lines of the results file.  text is what JSON.parse sees: "object" is a *)
(* JSON object in the k6 format {type, metric, data: {value, tags}},       *)
(* "blank" is an empty line and "garbage" is text that is not JSON.        *)
(***************************************************************************)
Garbage == [text |-> "garbage", type |-> "", metric |-> "", value |-> 0, status |-> NoStatus]
Blank == [text |-> "blank", type |-> "", metric |-> "", value |-> 0, status |-> NoStatus]
NonPoint == [text |-> "object", type |-> "Metric", metric |-> "http_req_duration", value |-> 0, status |-> NoStatus]
DurPoint(v) == [text |-> "object", type |-> "Point", metric |-> "http_req_duration", value |-> v, status |-> NoStatus]
ReqPoint(s) == [text |-> "object", type |-> "Point", metric |-> "http_reqs", value |-> 1, status |-> s]
OtherPoint == [text |-> "object", type |-> "Point", metric |-> "iterations", value |-> 1, status |-> NoStatus]

DurVals == {500, 1000, 1001}
StatusVals == {S200, S404, S500, NoStatus}
Alphabet == {Garbage, Blank, NonPoint, OtherPoint} \cup {DurPoint(v) : v \in DurVals} \cup {ReqPoint(s) : s \in StatusVals}

Rep(n, line) == [i \in 1..n |-> line]

\* Scenario 1 of the specification: durations 100, 150, ..., 550, nine
\* requests with status 200 and one with status 500
Scenario1 == [i \in 1..10 |-> DurPoint(50 + 50 * i)] \o Rep(9, ReqPoint(S200)) \o <<ReqPoint(S500)>>
\* error rate exactly 20%, and just above 10%
Rate1of5 == Rep(4, ReqPoint(S200)) \o <<ReqPoint(S404)>>
Rate1of9 == <<ReqPoint(S500)>> \o Rep(5, ReqPoint(S200)) \o <<ReqPoint(S301), ReqPoint(S0), ReqPoint(NoStatus)>>
Rate2of9 == <<ReqPoint(S500), ReqPoint(S404)>> \o Rep(6, ReqPoint(S200)) \o <<ReqPoint(NoStatus)>>
Rate1of11 == Rep(10, ReqPoint(S200)) \o <<ReqPoint(S404)>>
\* 21 durations of which one is slow: the p95 is not the maximum
OneSlowOf21 == Rep(10, DurPoint(100)) \o <<DurPoint(1001)>> \o Rep(10, DurPoint(200))
TwoSlowOf21 == <<DurPoint(1001), DurPoint(600)>> \o Rep(19, DurPoint(500))
\* 101 durations: p95, p99 and the maximum are three different values
Long101 == [i \in 1..101 |-> DurPoint(IF i = 7 THEN 1001 ELSE IF i \in 20..23 THEN 700 ELSE 100 + (i % 3))]
\* a blank line in the middle, leading and trailing blank lines
BlankMiddle == <<DurPoint(100), ReqPoint(S200), Blank, ReqPoint(S200), DurPoint(100)>>
BlankEnds == <<Blank, Blank, DurPoint(100), ReqPoint(S200), ReqPoint(S200), Blank, Blank>>
GarbageLast == <<DurPoint(100), ReqPoint(S200), ReqPoint(S200), DurPoint(100), Garbage>>
\* both quantities exactly on the local thresholds, and on the CI thresholds
OnLocalLimits == <<DurPoint(500), ReqPoint(S500)>> \o Rep(9, ReqPoint(S200))
OnCILimits == <<DurPoint(1000), ReqPoint(S404)>> \o Rep(4, ReqPoint(S200))

ScenarioFiles == {Scenario1, Rate1of5, Rate1of9, Rate2of9, Rate1of11, OneSlowOf21, TwoSlowOf21, Long101, BlankMiddle, BlankEnds, GarbageLast, OnLocalLimits, OnCILimits}
ShortFiles == UNION {[1..n -> Alphabet] : n \in 0..MaxLines}
Files == ShortFiles \cup ScenarioFiles

\* A Point without data.value, {"type":"Point","metric":"http_req_duration",
\* "data":{}}: entry.data.value is undefined
NoValuePoint == DurPoint(Undefined)
UntypedAlphabet == {NoValuePoint, DurPoint(500), DurPoint(1001), ReqPoint(S200), ReqPoint(S500), NonPoint}
\* 20 durations with one slow request, and a Point without a value
SlowOf20NoValue == Rep(19, DurPoint(100)) \o <<DurPoint(1001), NoValuePoint>>
UntypedFiles == UNION {[1..n -> UntypedAlphabet] : n \in 0..MaxLines} \cup {SlowOf20NoValue}

\* the one path of the file system that holds a readable file
ResultsPath == "results.json"
Tokens == {ResultsPath, "missing.json", "--ci", ""}
ArgVectors == UNION {[1..n -> Tokens] : n \in 0..MaxArgs}

VARIABLES tool, args, fileData, pc, THRESHOLDS, lines, idx, metrics, metricKeys, points, p95, statusCodes, totalReqs, errorReqs, errorRate, failures, stats, out, exits, prev

vars == <<tool, args, fileData, pc, THRESHOLDS, lines, idx, metrics, metricKeys, points, p95, statusCodes, totalReqs, errorReqs, errorRate, failures, stats, out, exits, prev>>

(***************************************************************************)
(* Pure helpers.                                                           *)
(***************************************************************************)
IsCI_SecondOnly(a) == Len(a) >= 2 /\ a[2] = "--ci"

\* args.includes('--ci')
IsCI(a) == \E i \in DOMAIN a : a[i] = "--ci"

\* args[0]
ResultsFile(a) == IF Len(a) >= 1 THEN a[1] ELSE NoArg

\* !resultsFile : undefined and '' are falsy
Falsy(path) == path = NoArg \/ path = ""

Thresholds_Swapped(a) == [errorRate |-> IF IsCI(a) THEN 10 ELSE 20, responseTime |-> IF IsCI(a) THEN 500 ELSE 1000]

\* the THRESHOLDS literal; errorRate in hundredths
Thresholds(a) == [errorRate |-> IF IsCI(a) THEN 20 ELSE 10, responseTime |-> IF IsCI(a) THEN 1000 ELSE 500]

\* data.trim(): leading and trailing blank lines go
RECURSIVE DropLeadingBlank(_)
DropLeadingBlank(d) == IF d # << >> /\ Head(d).text = "blank" THEN DropLeadingBlank(Tail(d)) ELSE d

RECURSIVE DropTrailingBlank(_)
DropTrailingBlank(d) == IF d # << >> /\ d[Len(d)].text = "blank" THEN DropTrailingBlank(SubSeq(d, 1, Len(d) - 1)) ELSE d

\* data.trim().split('\n'): ''.split('\n') is [''], one empty line
TrimSplit(d) == LET t == DropTrailingBlank(DropLeadingBlank(d)) IN IF t = << >> THEN <<Blank>> ELSE t

ParseThrows_SkipBlank(line) == line.text = "garbage"

\* JSON.parse(line) throws a SyntaxError on anything that is not JSON
ParseThrows(line) == line.text # "object"

\* the copy is taken but never sorted
SortAsc_Unsorted(v) == v

\* [...values].sort((a, b) => a - b): the numbers in ascending order (place
\* i holds the number x with fewer than i numbers below it and at least i
\* numbers not above it), followed by the undefined entries, which
\* Array.prototype.sort moves to the end without calling the comparator
SortAsc(v) ==
    LET num == {j \in DOMAIN v : v[j] # Undefined}
    IN [i \in 1..Len(v) |->
           IF i > Cardinality(num) THEN Undefined
           ELSE CHOOSE x \in {v[j] : j \in num} :
                    /\ Cardinality({j \in num : v[j] < x}) < i
                    /\ i <= Cardinality({j \in num : v[j] <= x})]

\* Math.ceil in place of Math.floor
PercentileIndex_Ceil(n, pct) == (n * pct + 99) \div 100

\* Math.floor(length * 0.95), Math.floor(length * 0.99)
PercentileIndex(n, pct) == (n * pct) \div 100

\* sorted[i] with i counted from 0
At(sorted, i) == IF i + 1 \in DOMAIN sorted THEN sorted[i + 1] ELSE Undefined

OrZero_Missing(x) == x

\* x || 0
OrZero(x) == IF x = Undefined THEN 0 ELSE x

\* metrics['http_req_duration']?.values || []
ValuesOf(m, name) == IF name \in DOMAIN m THEN m[name] ELSE << >>

\* sorted[Math.floor(sorted.length * 0.95)] || 0
P95Of(values) == LET sorted == SortAsc(values) IN OrZero(At(sorted, PercentileIndex(Len(sorted), 95)))

\* req.data.tags?.status || 'unknown'
StatusKey(req) == IF req.status = NoStatus THEN UnknownKey ELSE req.status

\* statusCodes[status] = (statusCodes[status] || 0) + 1
Bump(sc, key) == [k \in DOMAIN sc \cup {key} |-> IF k = key THEN (IF key \in DOMAIN sc THEN sc[key] ELSE 0) + 1 ELSE sc[k]]

\* points.filter(point => point.metric === 'http_reqs')
HttpReqs(pts) == SelectSeq(pts, LAMBDA point : point.metric = "http_reqs")

\* httpReqs.forEach(req => ...)
RECURSIVE Tally(_, _)
Tally(reqs, sc) == IF reqs = << >> THEN sc ELSE Tally(Tail(reqs), Bump(sc, StatusKey(Head(reqs))))

IsErrorCode_Only5xx(code) == Len(code) >= 1 /\ code[1] = "5"

\* code.startsWith('4') || code.startsWith('5')
IsErrorCode(code) == Len(code) >= 1 /\ (code[1] = "4" \/ code[1] = "5")

\* reduce((sum, count) => sum + count, 0) over the entries whose key is in keys
RECURSIVE SumOver(_, _)
SumOver(sc, keys) == IF keys = {} THEN 0 ELSE LET k == CHOOSE k \in keys : TRUE IN sc[k] + SumOver(sc, keys \ {k})

TotalOf(sc) == SumOver(sc, DOMAIN sc)
ErrorsOf(sc) == SumOver(sc, {code \in DOMAIN sc : IsErrorCode(code)})

RateOf_NoGuard(e, t) == <<e, t>>

\* totalReqs > 0 ? (errorReqs / totalReqs) : 0, as numerator and denominator
RateOf(e, t) == IF t > 0 THEN <<e, t>> ELSE <<0, 1>>

\* errorRate > limit, limit in hundredths
RateExceeds(rate, limit) == rate[1] * 100 > limit * rate[2]

TimeExceeds_Strict(p, limit) == p >= limit

\* p95 > THRESHOLDS.responseTime
TimeExceeds(p, limit) == p > limit

\* one line of console output
Msg(m, n) == [msg |-> m, n |-> n]

\* the aggregation of one parsed entry: a series is created on first sight
\* and the value is appended to it
Push(m, entry) == [k \in DOMAIN m \cup {entry.metric} |-> IF k = entry.metric THEN Append(ValuesOf(m, k), entry.value) ELSE m[k]]

NoMap == [k \in {} |-> 0]

\* the state of a process that has just been started
Started ==
    /\ pc = "start"
    /\ THRESHOLDS = Unset
    /\ lines = << >>
    /\ idx = 1
    /\ metrics = NoMap
    /\ metricKeys = << >>
    /\ points = << >>
    /\ p95 = 0
    /\ statusCodes = NoMap
    /\ totalReqs = 0
    /\ errorReqs = 0
    /\ errorRate = <<0, 1>>
    /\ failures = 0
    /\ stats = NoMap
    /\ out = << >>
    /\ exits = << >>

\* no earlier run on record
NoPrev == [ran |-> FALSE, kind |-> "", tool |-> "", args |-> << >>, fileData |-> << >>, exits |-> << >>, out |-> << >>, p95 |-> 0, totalReqs |-> 0, errorReqs |-> 0, errorRate |-> <<0, 1>>, metrics |-> NoMap, statusCodes |-> NoMap, stats |-> NoMap]

InitOver(files) ==
    /\ tool \in {"validate", "analyze"}
    /\ args \in ArgVectors
    /\ fileData \in IF ResultsFile(args) = ResultsPath THEN files ELSE {<< >>}
    /\ prev = NoPrev
    /\ Started

Init == InitOver(Files)

\* results files in which a Point may lack data.value
InitUntyped == InitOver(UntypedFiles)

\* catch (err) { console.error(...); process.exit(FAILURE) }
Catch ==
    /\ out' = Append(out, Msg("error", 0))
    /\ exits' = Append(exits, FAILURE)
    /\ pc' = "exited"

(***************************************************************************)
(* validate-results.js                                                     *)
(***************************************************************************)
V_CheckArgs ==
    /\ tool = "validate" /\ pc = "start"
    /\ IF Falsy(ResultsFile(args))
       THEN /\ out' = Append(out, Msg("usage", 0))
            /\ exits' = Append(exits, FAILURE)
            /\ pc' = "exited"
            /\ UNCHANGED THRESHOLDS
       ELSE /\ THRESHOLDS' = Thresholds(args)
            /\ pc' = "read"
            /\ UNCHANGED <<out, exits>>
    /\ UNCHANGED <<prev, tool, args, fileData, lines, idx, metrics, metricKeys, points, p95, statusCodes, totalReqs, errorReqs, errorRate, failures, stats>>

\* the header printed as soon as the file is read, before any line is parsed
V_ReadFile_HeaderFirst ==
    /\ tool = "validate" /\ pc = "read"
    /\ IF ResultsFile(args) = ResultsPath
       THEN /\ lines' = TrimSplit(fileData)
            /\ out' = Append(out, Msg("header", 0))
            /\ pc' = "parse"
            /\ UNCHANGED exits
       ELSE /\ Catch
            /\ UNCHANGED lines
    /\ UNCHANGED <<prev, tool, args, fileData, THRESHOLDS, idx, metrics, metricKeys, points, p95, statusCodes, totalReqs, errorReqs, errorRate, failures, stats>>

V_ReadFile ==
    /\ tool = "validate" /\ pc = "read"
    /\ IF ResultsFile(args) = ResultsPath
       THEN /\ lines' = TrimSplit(fileData)
            /\ pc' = "parse"
            /\ UNCHANGED <<out, exits>>
       ELSE /\ Catch
            /\ UNCHANGED lines
    /\ UNCHANGED <<prev, tool, args, fileData, THRESHOLDS, idx, metrics, metricKeys, points, p95, statusCodes, totalReqs, errorReqs, errorRate, failures, stats>>

V_ParseLine ==
    /\ tool = "validate" /\ pc = "parse" /\ idx <= Len(lines)
    /\ IF ParseThrows(lines[idx])
       THEN /\ Catch
            /\ UNCHANGED <<idx, metrics, metricKeys, points>>
       ELSE /\ idx' = idx + 1
            /\ IF lines[idx].type = "Point"
               THEN /\ points' = Append(points, lines[idx])
                    /\ metrics' = Push(metrics, lines[idx])
                    /\ metricKeys' = IF lines[idx].metric \in DOMAIN metrics THEN metricKeys ELSE Append(metricKeys, lines[idx].metric)
               ELSE UNCHANGED <<metrics, metricKeys, points>>
            /\ UNCHANGED <<pc, out, exits>>
    /\ UNCHANGED <<prev, tool, args, fileData, THRESHOLDS, lines, p95, statusCodes, totalReqs, errorReqs, errorRate, failures, stats>>

V_Header ==
    /\ tool = "validate" /\ pc = "parse" /\ idx > Len(lines)
    /\ out' = Append(out, Msg("header", 0))
    /\ pc' = "p95"
    /\ UNCHANGED <<prev, tool, args, fileData, THRESHOLDS, lines, idx, metrics, metricKeys, points, p95, statusCodes, totalReqs, errorReqs, errorRate, failures, stats, exits>>

V_P95 ==
    /\ tool = "validate" /\ pc = "p95"
    /\ p95' = P95Of(ValuesOf(metrics, "http_req_duration"))
    /\ out' = Append(out, Msg("p95", p95'))
    /\ pc' = "tally"
    /\ UNCHANGED <<prev, tool, args, fileData, THRESHOLDS, lines, idx, metrics, metricKeys, points, statusCodes, totalReqs, errorReqs, errorRate, failures, stats, exits>>

V_Tally ==
    /\ tool = "validate" /\ pc = "tally"
    /\ statusCodes' = Tally(HttpReqs(points), NoMap)
    /\ pc' = "rate"
    /\ UNCHANGED <<prev, tool, args, fileData, THRESHOLDS, lines, idx, metrics, metricKeys, points, p95, totalReqs, errorReqs, errorRate, failures, stats, out, exits>>

V_ErrorRate ==
    /\ tool = "validate" /\ pc = "rate"
    /\ totalReqs' = TotalOf(statusCodes)
    /\ errorReqs' = ErrorsOf(statusCodes)
    /\ errorRate' = RateOf(errorReqs', totalReqs')
    /\ out' = Append(out, Msg("rate", errorReqs'))
    /\ pc' = "checkTime"
    /\ UNCHANGED <<prev, tool, args, fileData, THRESHOLDS, lines, idx, metrics, metricKeys, points, p95, statusCodes, failures, stats, exits>>

V_CheckResponseTime ==
    /\ tool = "validate" /\ pc = "checkTime"
    /\ IF TimeExceeds(p95, THRESHOLDS.responseTime)
       THEN /\ out' = Append(out, Msg("FAILED response time", 0))
            /\ failures' = failures + 1
       ELSE UNCHANGED <<out, failures>>
    /\ pc' = "checkRate"
    /\ UNCHANGED <<prev, tool, args, fileData, THRESHOLDS, lines, idx, metrics, metricKeys, points, p95, statusCodes, totalReqs, errorReqs, errorRate, stats, exits>>

V_CheckErrorRate ==
    /\ tool = "validate" /\ pc = "checkRate"
    /\ IF RateExceeds(errorRate, THRESHOLDS.errorRate)
       THEN /\ out' = Append(out, Msg("FAILED error rate", 0))
            /\ failures' = failures + 1
       ELSE UNCHANGED <<out, failures>>
    /\ pc' = "verdict"
    /\ UNCHANGED <<prev, tool, args, fileData, THRESHOLDS, lines, idx, metrics, metricKeys, points, p95, statusCodes, totalReqs, errorReqs, errorRate, stats, exits>>

\* `if (failures = 0)`: the assignment yields 0 and the else branch runs
V_Exit_Assign ==
    /\ tool = "validate" /\ pc = "verdict"
    /\ failures' = 0
    /\ out' = Append(out, Msg("FAILED", 0))
    /\ exits' = Append(exits, FAILURE)
    /\ pc' = "exited"
    /\ UNCHANGED <<prev, tool, args, fileData, THRESHOLDS, lines, idx, metrics, metricKeys, points, p95, statusCodes, totalReqs, errorReqs, errorRate, stats>>

V_Exit ==
    /\ tool = "validate" /\ pc = "verdict"
    /\ IF failures = 0
       THEN /\ out' = Append(out, Msg("PASSED", 0))
            /\ exits' = Append(exits, SUCCESS)
       ELSE /\ out' = Append(out, Msg("FAILED", failures))
            /\ exits' = Append(exits, FAILURE)
    /\ pc' = "exited"
    /\ UNCHANGED <<prev, tool, args, fileData, THRESHOLDS, lines, idx, metrics, metricKeys, points, p95, statusCodes, totalReqs, errorReqs, errorRate, failures, stats>>

Validate == V_CheckArgs \/ V_ReadFile \/ V_ParseLine \/ V_Header \/ V_P95 \/ V_Tally \/ V_ErrorRate \/ V_CheckResponseTime \/ V_CheckErrorRate \/ V_Exit

(***************************************************************************)
(* analyze-results.js                                                      *)
(***************************************************************************)
\* count, min, max, sum (avg = sum / count), p95 and p99 of one series
StatsOf(values) ==
    LET sorted == SortAsc(values)
    IN [count |-> Len(values),
        min |-> At(sorted, 0),
        max |-> At(sorted, Len(sorted) - 1),
        p95 |-> At(sorted, PercentileIndex(Len(sorted), 95)),
        p99 |-> At(sorted, PercentileIndex(Len(sorted), 99))]

A_CheckArgs ==
    /\ tool = "analyze" /\ pc = "start"
    /\ IF Len(args) < 1
       THEN /\ out' = out \o <<Msg("usage", 0), Msg("usage", 1)>>
            /\ exits' = Append(exits, FAILURE)
            /\ pc' = "exited"
       ELSE /\ pc' = "read"
            /\ UNCHANGED <<out, exits>>
    /\ UNCHANGED <<prev, tool, args, fileData, THRESHOLDS, lines, idx, metrics, metricKeys, points, p95, statusCodes, totalReqs, errorReqs, errorRate, failures, stats>>

A_ReadFile ==
    /\ tool = "analyze" /\ pc = "read"
    /\ IF ResultsFile(args) = ResultsPath
       THEN /\ lines' = TrimSplit(fileData)
            /\ pc' = "parse"
            /\ UNCHANGED <<out, exits>>
       ELSE /\ Catch
            /\ UNCHANGED lines
    /\ UNCHANGED <<prev, tool, args, fileData, THRESHOLDS, idx, metrics, metricKeys, points, p95, statusCodes, totalReqs, errorReqs, errorRate, failures, stats>>

A_ParseLine ==
    /\ tool = "analyze" /\ pc = "parse" /\ idx <= Len(lines)
    /\ IF ParseThrows(lines[idx])
       THEN /\ Catch
            /\ UNCHANGED <<idx, metrics, metricKeys, points>>
       ELSE /\ idx' = idx + 1
            /\ IF lines[idx].type = "Point"
               THEN /\ points' = Append(points, lines[idx])
                    /\ metrics' = Push(metrics, lines[idx])
                    /\ metricKeys' = IF lines[idx].metric \in DOMAIN metrics THEN metricKeys ELSE Append(metricKeys, lines[idx].metric)
               ELSE UNCHANGED <<metrics, metricKeys, points>>
            /\ UNCHANGED <<pc, out, exits>>
    /\ UNCHANGED <<prev, tool, args, fileData, THRESHOLDS, lines, p95, statusCodes, totalReqs, errorReqs, errorRate, failures, stats>>

A_Header ==
    /\ tool = "analyze" /\ pc = "parse" /\ idx > Len(lines)
    /\ out' = Append(out, Msg("header", 0))
    /\ idx' = 1
    /\ pc' = "stats"
    /\ UNCHANGED <<prev, tool, args, fileData, THRESHOLDS, lines, metrics, metricKeys, points, p95, statusCodes, totalReqs, errorReqs, errorRate, failures, stats, exits>>

\* one round of Object.keys(metrics).forEach
A_MetricStats ==
    /\ tool = "analyze" /\ pc = "stats" /\ idx <= Len(metricKeys)
    /\ LET metricName == metricKeys[idx]
           values == metrics[metricName]
       IN IF Len(values) = 0
          THEN UNCHANGED <<stats, out>>
          ELSE /\ stats' = [k \in DOMAIN stats \cup {metricName} |-> IF k = metricName THEN StatsOf(values) ELSE stats[k]]
               /\ out' = Append(out, Msg("metric", Len(values)))
    /\ idx' = idx + 1
    /\ UNCHANGED <<prev, tool, args, fileData, pc, THRESHOLDS, lines, metrics, metricKeys, points, p95, statusCodes, totalReqs, errorReqs, errorRate, failures, exits>>

A_Tally ==
    /\ tool = "analyze" /\ pc = "stats" /\ idx > Len(metricKeys)
    /\ statusCodes' = Tally(HttpReqs(points), NoMap)
    /\ out' = Append(out, Msg("distribution", Cardinality(DOMAIN statusCodes')))
    /\ pc' = "rate"
    /\ UNCHANGED <<prev, tool, args, fileData, THRESHOLDS, lines, idx, metrics, metricKeys, points, p95, totalReqs, errorReqs, errorRate, failures, stats, exits>>

A_ErrorRate ==
    /\ tool = "analyze" /\ pc = "rate"
    /\ totalReqs' = TotalOf(statusCodes)
    /\ errorReqs' = ErrorsOf(statusCodes)
    /\ errorRate' = RateOf(errorReqs', totalReqs')
    /\ out' = out \o <<Msg("total", totalReqs'), Msg("errors", errorReqs'), Msg("rate", errorReqs')>>
    /\ pc' = "thresholds"
    /\ UNCHANGED <<prev, tool, args, fileData, THRESHOLDS, lines, idx, metrics, metricKeys, points, p95, statusCodes, failures, stats, exits>>

\* the analyzer warning already at a p95 of exactly 500
A_Thresholds_Inclusive ==
    /\ tool = "analyze" /\ pc = "thresholds"
    /\ p95' = P95Of(ValuesOf(metrics, "http_req_duration"))
    /\ metrics' = [k \in DOMAIN metrics |-> IF k = "http_req_duration" THEN SortAsc(metrics[k]) ELSE metrics[k]]
    /\ out' = out \o <<Msg("p95", p95'),
                        Msg("rate", errorReqs),
                        Msg(IF p95' >= 500 THEN "Warning response time" ELSE "response time ok", 0),
                        Msg(IF RateExceeds(errorRate, 10) THEN "Warning error rate" ELSE "error rate ok", 0)>>
    /\ pc' = "end"
    /\ UNCHANGED <<prev, tool, args, fileData, THRESHOLDS, lines, idx, metricKeys, points, statusCodes, totalReqs, errorReqs, errorRate, failures, stats, exits>>

\* the threshold analysis; values.sort() on line 109 sorts the series in place
A_Thresholds ==
    /\ tool = "analyze" /\ pc = "thresholds"
    /\ p95' = P95Of(ValuesOf(metrics, "http_req_duration"))
    /\ metrics' = [k \in DOMAIN metrics |-> IF k = "http_req_duration" THEN SortAsc(metrics[k]) ELSE metrics[k]]
    /\ out' = out \o <<Msg("p95", p95'),
                        Msg("rate", errorReqs),
                        Msg(IF TimeExceeds(p95', 500) THEN "Warning response time" ELSE "response time ok", 0),
                        Msg(IF RateExceeds(errorRate, 10) THEN "Warning error rate" ELSE "error rate ok", 0)>>
    /\ pc' = "end"
    /\ UNCHANGED <<prev, tool, args, fileData, THRESHOLDS, lines, idx, metricKeys, points, statusCodes, totalReqs, errorReqs, errorRate, failures, stats, exits>>

\* the script runs off its end: the process exits with status 0
A_End ==
    /\ tool = "analyze" /\ pc = "end"
    /\ exits' = Append(exits, SUCCESS)
    /\ pc' = "exited"
    /\ UNCHANGED <<prev, tool, args, fileData, THRESHOLDS, lines, idx, metrics, metricKeys, points, p95, statusCodes, totalReqs, errorReqs, errorRate, failures, stats, out>>

Analyze == A_CheckArgs \/ A_ReadFile \/ A_ParseLine \/ A_Header \/ A_MetricStats \/ A_Tally \/ A_ErrorRate \/ A_Thresholds \/ A_End

(***************************************************************************)
(* The pipeline runs the validator again on the same results file with     *)
(* --ci appended: `node validate-results.js <results-file.json> --ci`.     *)
(* prev keeps what the run without the flag printed and how it exited.     *)
(***************************************************************************)
\* what a finished run leaves behind for the comparison with the next one
Snapshot(kind) == [ran |-> TRUE, kind |-> kind, tool |-> tool, args |-> args, fileData |-> fileData, exits |-> exits, out |-> out, p95 |-> p95, totalReqs |-> totalReqs, errorReqs |-> errorReqs, errorRate |-> errorRate, metrics |-> metrics, statusCodes |-> statusCodes, stats |-> stats]

\* a new process: every variable of the script starts afresh
Restart ==
    /\ pc' = "start"
    /\ THRESHOLDS' = Unset
    /\ lines' = << >>
    /\ idx' = 1
    /\ metrics' = NoMap
    /\ metricKeys' = << >>
    /\ points' = << >>
    /\ p95' = 0
    /\ statusCodes' = NoMap
    /\ totalReqs' = 0
    /\ errorReqs' = 0
    /\ errorRate' = <<0, 1>>
    /\ failures' = 0
    /\ stats' = NoMap
    /\ out' = << >>
    /\ exits' = << >>

RerunCI ==
    /\ tool = "validate" /\ pc = "exited" /\ ~prev.ran /\ ~IsCI(args)
    /\ prev' = Snapshot("ci")
    /\ args' = Append(args, "--ci")
    /\ Restart
    /\ UNCHANGED <<tool, fileData>>

(***************************************************************************)
(* The same tool runs again, with the same arguments, on a results file    *)
(* that differs from the first one by one line: a record that is not a     *)
(* Point is added or taken away, or two neighbouring lines change places.  *)
(* Or the other tool runs on the same file, as the pipeline does.          *)
(***************************************************************************)
PlainArgs == args = <<ResultsPath>> \/ (tool = "validate" /\ args = <<ResultsPath, "--ci">>)

Editable == PlainArgs /\ Len(fileData) <= MaxRerunLines

InsertAt(d, k, line) == SubSeq(d, 1, k) \o <<line>> \o SubSeq(d, k + 1, Len(d))

RemoveAt(d, k) == SubSeq(d, 1, k - 1) \o SubSeq(d, k + 1, Len(d))

SwapAt(d, k) == [i \in DOMAIN d |-> IF i = k THEN d[k + 1] ELSE IF i = k + 1 THEN d[k] ELSE d[i]]

RerunWithLine ==
    /\ pc = "exited" /\ ~prev.ran /\ Editable
    /\ \E k \in 0..Len(fileData) : fileData' = InsertAt(fileData, k, NonPoint)
    /\ prev' = Snapshot("added")
    /\ Restart
    /\ UNCHANGED <<tool, args>>

RerunWithoutLine ==
    /\ pc = "exited" /\ ~prev.ran /\ Editable
    /\ \E k \in DOMAIN fileData :
          /\ fileData[k].text = "object" /\ fileData[k].type # "Point"
          /\ fileData' = RemoveAt(fileData, k)
    /\ prev' = Snapshot("removed")
    /\ Restart
    /\ UNCHANGED <<tool, args>>

RerunSwapped ==
    /\ pc = "exited" /\ ~prev.ran /\ Editable
    /\ \E k \in 1..(Len(fileData) - 1) :
          /\ fileData[k] # fileData[k + 1]
          /\ fileData' = SwapAt(fileData, k)
    /\ prev' = Snapshot("swapped")
    /\ Restart
    /\ UNCHANGED <<tool, args>>

RerunValidate ==
    /\ tool = "analyze" /\ pc = "exited" /\ ~prev.ran /\ args = <<ResultsPath>>
    /\ tool' = "validate"
    /\ prev' = Snapshot("analyzed")
    /\ Restart
    /\ UNCHANGED <<args, fileData>>

Rerun == RerunCI \/ RerunWithLine \/ RerunWithoutLine \/ RerunSwapped \/ RerunValidate

Next == Validate \/ Analyze \/ Rerun

Spec == Init /\ [][Next]_vars

SpecUntyped == InitUntyped /\ [][Next]_vars

(***************************************************************************)
(* Vocabulary of the properties, stated on the inputs and on what a run    *)
(* printed and how it exited.                                              *)
(***************************************************************************)
HasMsg(o, m) == \E i \in DOMAIN o : o[i].msg = m

Readable == Len(args) >= 1 /\ args[1] = ResultsPath

HasFlag == \E i \in DOMAIN args : args[i] = "--ci"

NonBlankIdx(d) == {i \in DOMAIN d : d[i].text # "blank"}

\* line i is a blank line with text before it and after it
BlankInside(d, i) == d[i].text = "blank" /\ \E j, k \in NonBlankIdx(d) : j < i /\ i < k

\* line i is not valid JSON
FaultLine(d, i) == d[i].text = "garbage" \/ BlankInside(d, i)

\* the file has content and every line of it is JSON
ParsesClean(d) == NonBlankIdx(d) # {} /\ \A i \in DOMAIN d : ~FaultLine(d, i)

ValidatorDone == tool = "validate" /\ pc = "exited"

RateAtMost(limit) == errorRate[1] * 100 <= limit * errorRate[2]

\* C1: when the file is read and parsed without fault the validator exits
\* with 0 exactly if p95 <= thresholds.responseTime and errorRate <=
\* thresholds.errorRate, with 1 otherwise, and the number of failed
\* thresholds it reports is the number of violated conditions
C1_ExitMatchesThresholds ==
    (ValidatorDone /\ Readable /\ ParsesClean(fileData)) =>
        LET timeOK == p95 <= THRESHOLDS.responseTime
            rateOK == RateAtMost(THRESHOLDS.errorRate)
            violated == (IF timeOK THEN 0 ELSE 1) + (IF rateOK THEN 0 ELSE 1)
        IN /\ exits = <<IF timeOK /\ rateOK THEN 0 ELSE 1>>
           /\ failures = violated
           /\ out[Len(out)] = IF violated = 0 THEN Msg("PASSED", 0) ELSE Msg("FAILED", violated)

C1_Witness ==
    /\ ValidatorDone /\ fileData = Scenario1 /\ ~HasFlag
    /\ p95 = 550 /\ exits = <<1>> /\ out[Len(out)] = Msg("FAILED", 1)

\* C2: the thresholds in use are {errorRate 0.20, responseTime 1000} when
\* '--ci' is among the arguments and {errorRate 0.10, responseTime 500}
\* otherwise, whatever the file holds and wherever the flag stands
C2_ThresholdsByFlag ==
    (tool = "validate" /\ (THRESHOLDS # Unset \/ pc \notin {"start", "exited"})) =>
        THRESHOLDS = IF HasFlag THEN [errorRate |-> 20, responseTime |-> 1000] ELSE [errorRate |-> 10, responseTime |-> 500]

C2_Witness ==
    /\ tool = "validate" /\ pc = "verdict" /\ args = <<ResultsPath, "--ci">>
    /\ THRESHOLDS = [errorRate |-> 20, responseTime |-> 1000] /\ fileData = Scenario1

\* C3: the comparisons are inclusive: a p95 equal to thresholds.responseTime
\* does not fail the response-time condition and an error rate equal to
\* thresholds.errorRate does not fail the error-rate condition
C3_InclusiveThresholds ==
    (ValidatorDone /\ Readable /\ ParsesClean(fileData)) =>
        LET timeOnLimit == p95 = THRESHOLDS.responseTime
            rateOnLimit == errorRate[1] * 100 = THRESHOLDS.errorRate * errorRate[2]
        IN /\ timeOnLimit => ~HasMsg(out, "FAILED response time")
           /\ rateOnLimit => ~HasMsg(out, "FAILED error rate")
           /\ (timeOnLimit /\ rateOnLimit) => exits = <<SUCCESS>>

C3_Witness ==
    /\ ValidatorDone /\ fileData = OnLocalLimits /\ ~HasFlag
    /\ p95 = 500 /\ errorReqs = 1 /\ totalReqs = 10 /\ exits = <<SUCCESS>>

InputFault ==
    \/ Len(args) = 0
    \/ args[1] # ResultsPath
    \/ \E i \in DOMAIN fileData : FaultLine(fileData, i)

\* C4: a run without a file path, with a path that cannot be read, or with
\* a line that is not JSON at any position, never ends with success: it
\* exits once, with a nonzero status, and prints no verdict
C4_FaultsExitNonzero ==
    (tool = "validate" /\ InputFault) =>
        /\ ~HasMsg(out, "PASSED") /\ ~HasMsg(out, "FAILED")
        /\ pc = "exited" => (exits = <<FAILURE>> /\ exits[1] # 0)
        /\ pc # "exited" => exits = << >>

C4_Witness ==
    /\ ValidatorDone /\ fileData = BlankMiddle /\ idx = 3
    /\ exits = <<FAILURE>> /\ out = <<Msg("error", 0)>>

IsPointOf(line, name) == line.text = "object" /\ line.type = "Point" /\ line.metric = name

NoPointInput(d) == \A i \in DOMAIN d : d[i].text # "garbage" /\ d[i].type # "Point" /\ ~BlankInside(d, i)

\* C5: on an empty file, and on any input without a Point line, the
\* validator does not fault: p95 is 0, the error ratio is 0 and it exits 0
\* under both threshold profiles
C5_ZeroPointsPass ==
    (ValidatorDone /\ Readable /\ NoPointInput(fileData)) =>
        /\ ~HasMsg(out, "error")
        /\ p95 = 0 /\ errorRate = <<0, 1>>
        /\ exits = <<SUCCESS>>

\* C6: an input that parses and has no http_req_duration Point gives p95 = 0,
\* the response-time condition passes and the error rate alone decides the
\* exit status; without http_reqs Points the error rate is 0 and the
\* response time alone decides
C6_EmptySeriesNotFatal ==
    (ValidatorDone /\ Readable /\ ParsesClean(fileData)) =>
        /\ ~HasMsg(out, "error")
        /\ (\A i \in DOMAIN fileData : ~IsPointOf(fileData[i], "http_req_duration")) =>
              /\ p95 = 0
              /\ ~HasMsg(out, "FAILED response time")
              /\ exits = <<IF RateAtMost(THRESHOLDS.errorRate) THEN 0 ELSE 1>>
        /\ (\A i \in DOMAIN fileData : ~IsPointOf(fileData[i], "http_reqs")) =>
              /\ totalReqs = 0 /\ errorRate = <<0, 1>>
              /\ ~HasMsg(out, "FAILED error rate")
              /\ exits = <<IF p95 <= THRESHOLDS.responseTime THEN 0 ELSE 1>>

C6_Witness ==
    /\ ValidatorDone /\ fileData = <<ReqPoint(S500), NonPoint>>
    /\ p95 = 0 /\ failures = 1 /\ exits = <<FAILURE>>

\* C7: errorReqs <= totalReqs, the error ratio lies in [0,1], it is 0 when
\* totalReqs = 0, and its denominator is never 0
C7_ErrorRatioInUnitInterval ==
    /\ 0 <= errorReqs /\ errorReqs <= totalReqs
    /\ errorRate[2] > 0
    /\ 0 <= errorRate[1] /\ errorRate[1] <= errorRate[2]
    /\ totalReqs = 0 => errorRate[1] = 0
    /\ totalReqs > 0 => errorRate[1] * totalReqs = errorReqs * errorRate[2]

C7_Witness ==
    /\ tool = "analyze" /\ pc = "thresholds"
    /\ Len(points) = 2 /\ totalReqs = 0 /\ errorRate = <<0, 1>>

\* C8: for every metric with at least one value the analyzer's statistics
\* satisfy min <= p95 <= p99 <= max, min being the smallest and max the
\* largest value of the series
C8_StatsOrdered ==
    \A k \in DOMAIN stats :
        LET st == stats[k]
            V == metrics[k]
        IN /\ st.count = Len(V) /\ st.count > 0
           /\ st.min <= st.p95 /\ st.p95 <= st.p99 /\ st.p99 <= st.max
           /\ \A i \in DOMAIN V : st.min <= V[i] /\ V[i] <= st.max
           /\ \E i \in DOMAIN V : V[i] = st.min
           /\ \E i \in DOMAIN V : V[i] = st.max

C8_Witness ==
    /\ tool = "analyze" /\ fileData = Long101 /\ "http_req_duration" \in DOMAIN stats
    /\ stats["http_req_duration"] = [count |-> 101, min |-> 100, max |-> 1001, p95 |-> 102, p99 |-> 700]

\* C9: a results file that passes without '--ci' passes with '--ci', and
\* every condition that fails with '--ci' fails without it
C9_CIRelaxesLocal ==
    (ValidatorDone /\ prev.kind = "ci") =>
        /\ prev.exits = <<SUCCESS>> => exits = <<SUCCESS>>
        /\ HasMsg(out, "FAILED response time") => HasMsg(prev.out, "FAILED response time")
        /\ HasMsg(out, "FAILED error rate") => HasMsg(prev.out, "FAILED error rate")

C9_Witness ==
    /\ ValidatorDone /\ prev.kind = "ci" /\ fileData = Scenario1
    /\ prev.exits = <<FAILURE>> /\ exits = <<SUCCESS>>

ReqIdx == {i \in DOMAIN fileData : IsPointOf(fileData[i], "http_reqs")}

KeyAt(i) == IF fileData[i].status = << >> THEN UnknownKey ELSE fileData[i].status

ErrorIdx == {i \in ReqIdx : fileData[i].status # << >> /\ fileData[i].status[1] \in {"4", "5"}}

TallyDone == pc \in {"rate", "checkTime", "checkRate", "verdict", "thresholds", "end"} \/ (pc = "exited" /\ HasMsg(out, "header"))

\* C10: the tally holds one count per http_reqs Point under its status, or
\* under "unknown" when the status is absent; totalReqs is the number of
\* http_reqs Points and errorReqs the number of those whose status starts
\* with '4' or '5'; Points of other metrics change nothing
C10_TallyCountsHttpReqs ==
    /\ TallyDone =>
          /\ DOMAIN statusCodes = {KeyAt(i) : i \in ReqIdx}
          /\ \A k \in DOMAIN statusCodes : statusCodes[k] = Cardinality({i \in ReqIdx : KeyAt(i) = k})
    /\ (TallyDone /\ pc # "rate") =>
          /\ totalReqs = Cardinality(ReqIdx)
          /\ errorReqs = Cardinality(ErrorIdx)

C10_Witness ==
    /\ tool = "analyze" /\ pc = "end" /\ fileData = Rate1of9
    /\ statusCodes[UnknownKey] = 1 /\ statusCodes[S0] = 1 /\ statusCodes[S301] = 1
    /\ totalReqs = 9 /\ errorReqs = 1

\* x is the value at place i (counted from 0) of the ascending order of V
IsAtRank(V, x, i) ==
    /\ \E j \in DOMAIN V : V[j] = x
    /\ Cardinality({j \in DOMAIN V : V[j] < x}) <= i
    /\ i < Cardinality({j \in DOMAIN V : V[j] <= x})

DurationSeries == IF "http_req_duration" \in DOMAIN metrics THEN metrics["http_req_duration"] ELSE << >>

\* C11: for a series of n >= 1 values the p95 (p99) is the value at index
\* floor(0.95 n) (floor(0.99 n)) of the ascending order; that index lies in
\* 0..n-1, so the percentile is an element of the series; for n = 10 the
\* p95 index is 9
C11_PercentileIndexInRange ==
    /\ \A k \in DOMAIN stats :
          LET V == metrics[k]
              n == Len(V)
          IN /\ n >= 1
             /\ (95 * n) \div 100 \in 0..(n - 1) /\ (99 * n) \div 100 \in 0..(n - 1)
             /\ IsAtRank(V, stats[k].p95, (95 * n) \div 100)
             /\ IsAtRank(V, stats[k].p99, (99 * n) \div 100)
             /\ n = 10 => IsAtRank(V, stats[k].p95, 9)
    /\ (HasMsg(out, "p95") /\ Len(DurationSeries) >= 1) =>
          IsAtRank(DurationSeries, p95, (95 * Len(DurationSeries)) \div 100)

C11_Witness ==
    /\ tool = "analyze" /\ pc = "end" /\ fileData = Scenario1
    /\ stats["http_req_duration"].count = 10 /\ stats["http_req_duration"].p95 = 550
    /\ p95 = 550

NoBlank(d) == \A i \in DOMAIN d : d[i].text # "blank"

\* C12: records that are not Points take no part in the aggregation: with
\* one such line added to or removed from a file (stated on files without
\* blank lines) every series, the status tally, p95, the error rate, the
\* output and the exit status are those of the run on the file before
C12_NonPointLinesIgnored ==
    (pc = "exited" /\ prev.kind \in {"added", "removed"} /\ NoBlank(fileData) /\ NoBlank(prev.fileData)) =>
        /\ metrics = prev.metrics /\ statusCodes = prev.statusCodes /\ stats = prev.stats
        /\ p95 = prev.p95 /\ errorRate = prev.errorRate
        /\ out = prev.out /\ exits = prev.exits

NumericOnly(V) == SelectSeq(V, LAMBDA x : x # Undefined)

\* C13: once the file is aggregated every value of every series is a
\* number: a Point without a numeric data.value adds no entry, and the p95
\* is that of the numeric values
C13_SeriesAllNumeric ==
    /\ HasMsg(out, "header") => \A k \in DOMAIN metrics : \A i \in DOMAIN metrics[k] : metrics[k][i] # Undefined
    /\ HasMsg(out, "p95") =>
          LET N == NumericOnly(DurationSeries)
          IN IF N = << >> THEN p95 = 0 ELSE IsAtRank(N, p95, (95 * Len(N)) \div 100)

\* the verdict lines of an output
Verdict(o) == {o[i] : i \in {j \in DOMAIN o : o[j].msg \in {"PASSED", "FAILED", "FAILED response time", "FAILED error rate", "Warning response time", "Warning error rate"}}}

SameAggregates ==
    /\ stats = prev.stats /\ statusCodes = prev.statusCodes
    /\ p95 = prev.p95 /\ totalReqs = prev.totalReqs /\ errorReqs = prev.errorReqs /\ errorRate = prev.errorRate
    /\ Verdict(out) = Verdict(prev.out) /\ exits = prev.exits

OrderIndependentNoBlank ==
    (pc = "exited" /\ prev.kind = "swapped" /\ NoBlank(fileData)) => SameAggregates

\* C15: on a parseable input the analyzer's threshold analysis and the
\* validator run without --ci compute the same p95 of http_req_duration,
\* totalReqs and errorReqs; the analyzer warns about response time exactly
\* when the validator reports the response-time failure, and about the error
\* rate exactly when the validator reports the error-rate failure
C15_AnalyzerAgreesWithValidator ==
    (tool = "validate" /\ pc = "exited" /\ prev.kind = "analyzed" /\ HasMsg(prev.out, "p95"))
        => /\ HasMsg(out, "p95")
           /\ p95 = prev.p95
           /\ totalReqs = prev.totalReqs
           /\ errorReqs = prev.errorReqs
           /\ HasMsg(prev.out, "Warning response time") <=> HasMsg(out, "FAILED response time")
           /\ HasMsg(prev.out, "Warning error rate") <=> HasMsg(out, "FAILED error rate")

\* the analyzer warned about response time only, and so did the validator
C15_Witness ==
    /\ tool = "validate" /\ pc = "exited" /\ prev.kind = "analyzed"
    /\ prev.tool = "analyze"
    /\ HasMsg(prev.out, "Warning response time") /\ HasMsg(out, "FAILED response time")
    /\ HasMsg(prev.out, "error rate ok") /\ ~HasMsg(out, "FAILED error rate")
    /\ p95 = prev.p95 /\ p95 > 500 /\ totalReqs >= 1

\* a message that reports a result, as against an error or usage message
IsResult(m) == m.msg \notin {"usage", "error"}

HasResult(o) == \E i \in DOMAIN o : IsResult(o[i])

IsSummary(m) == m.msg \in {"PASSED", "FAILED"}

\* the run cannot get through reading and parsing: no path, a path that is
\* not the results file, a faulty line, or a file without content
AbortInput == InputFault \/ NonBlankIdx(fileData) = {}

\* C16: no result output (header, statistics, p95, error rate, verdict)
\* appears before every line of the file has been parsed without fault; a
\* run that aborts on its path, its file or a malformed line at any position
\* emits only error text and exits once with a nonzero status; a validator
\* run that reaches the verdict emits exactly one PASSED/FAILED summary, as
\* its last output, and exits once with the matching status; no run exits
\* more than once
C16_OutputAfterParsingSingleExit ==
    /\ Len(exits) <= 1
    /\ (pc = "exited") <=> (Len(exits) = 1)
    /\ HasResult(out) =>
           /\ pc \notin {"start", "read", "parse"}
           /\ ~AbortInput
           /\ Len(lines) >= 1
           /\ \A i \in DOMAIN lines : ~ParseThrows(lines[i])
    /\ (pc = "exited" /\ AbortInput) =>
           /\ out # << >>
           /\ ~HasResult(out)
           /\ exits = <<FAILURE>>
    /\ (tool = "validate" /\ pc = "exited" /\ ~AbortInput) =>
           /\ Cardinality({i \in DOMAIN out : IsSummary(out[i])}) = 1
           /\ IsSummary(out[Len(out)])
           /\ exits = <<IF HasMsg(out, "PASSED") THEN SUCCESS ELSE FAILURE>>
    /\ (\E i \in DOMAIN out : IsSummary(out[i])) => (tool = "validate" /\ pc = "exited")

\* the validator parsed a Point and then met a malformed line: one error
\* message, one exit with FAILURE, nothing else
C16_Witness ==
    /\ tool = "validate" /\ pc = "exited"
    /\ Len(points) >= 1
    /\ \E i \in DOMAIN fileData : i > 1 /\ fileData[i].text = "garbage"
    /\ out = <<Msg("error", 0)>>
    /\ exits = <<FAILURE>>

====
